---- MODULE Spec2Model ----
(***************************************************************************)
(* Model of datalab.stackdriver.monitoring._query.Query:                   *)
(*   - labels_as_dataframe: the pandas pipeline that turns the headers of  *)
(*     the selected time series into a two-level table (SpecLabels);       *)
(*   - execute / results: the cached QueryResults (SpecCache);             *)
(*   - __init__ / iter: one sub-query per metric type (SpecIter).          *)
(*                                                                         *)
(* Strings are sequences of character codes, so that splitting at '.' and  *)
(* lexicographic comparison are computed, not assumed.                     *)
(***************************************************************************)
EXTENDS Integers, Sequences, FiniteSets, TLC

VARIABLES
    headers,        \* labels_as_dataframe: the headers yielded by iter(headers_only=True)
    resourceOrder,  \* the total order gcloud's _sorted_resource_labels puts on label names
    df,             \* labels_as_dataframe: what the call produced (NotCalled before it)
    _results,       \* Query._results
    log,            \* history: the execute()/results() calls made so far
    returned,       \* what the last results() call returned
    initArg,        \* the metric_type argument Query.__init__ was given
    backend,        \* the monitoring service: how many time series each metric type has
    filters,        \* the _Filter objects: object id -> its metric_type attribute
    gens            \* the generators made by Query.iter

vars == <<headers, resourceOrder, df, _results, log, returned,
          initArg, backend, filters, gens>>

labelVars == <<headers, resourceOrder, df>>
cacheVars == <<_results, log, returned>>
iterVars  == <<initArg, backend, filters, gens>>

-----------------------------------------------------------------------------
(* Bounds *)

\* most header records one headers-only iteration yields
MaxHeaders == 2

\* most execute()/results() calls made on one Query
MaxCalls == 3

\* most time series the service holds for one metric type
MaxSeries == 2

-----------------------------------------------------------------------------
(* Strings *)

None  == [kind |-> "None"]
NoArg == [kind |-> "none"]

DotStr      == <<0>>        \* '.'
MetricStr   == <<10>>       \* 'metric'
ResourceStr == <<11>>       \* 'resource'
TypeStr     == <<12>>       \* 'type'
LabelsStr   == <<13>>       \* 'labels'
EmptyStr    == <<>>         \* ''
NaN         == <<-1>>       \* pandas' missing-value marker (not a string)

Join(p, k) == p \o DotStr \o k

MetricType     == Join(MetricStr, TypeStr)        \* 'metric.type'
ResourceType   == Join(ResourceStr, TypeStr)      \* 'resource.type'
MetricLabels   == Join(MetricStr, LabelsStr)      \* 'metric.labels'
ResourceLabels == Join(ResourceStr, LabelsStr)    \* 'resource.labels'

\* Python's < on strings: lexicographic by character code
RECURSIVE StrLess(_, _)
StrLess(a, b) ==
    IF b = <<>> THEN FALSE
    ELSE IF a = <<>> THEN TRUE
    ELSE IF a[1] # b[1] THEN a[1] < b[1]
    ELSE StrLess(Tail(a), Tail(b))

\* Python's < on tuples of strings of equal length
TupleLess(s, t) ==
    \E k \in 1..Len(s) :
        /\ \A i \in 1..(k - 1) : s[i] = t[i]
        /\ StrLess(s[k], t[k])

\* the elements of S as the sequence that is ascending for the strict order Less
SortedSeq(S, Less(_, _)) ==
    LET ranked == {<<Cardinality({y \in S : Less(y, x)}), x>> : x \in S}
    IN  [i \in 1..Cardinality(S) |-> (CHOOSE r \in ranked : r[1] = i - 1)[2]]

Range(s) == {s[i] : i \in DOMAIN s}

\* col.rsplit('.', 1): split at the last '.', if there is one
rsplit(s) ==
    LET dots == {i \in DOMAIN s : <<s[i]>> = DotStr}
    IN  IF dots = {} THEN <<s>>
        ELSE LET last == CHOOSE i \in dots : \A j \in dots : j <= i
             IN  <<SubSeq(s, 1, last - 1), SubSeq(s, last + 1, Len(s))>>

-----------------------------------------------------------------------------
(* The inputs: well-formed header records *)

NameA   == <<1>>
NameB   == <<2>>
NameAB  == <<1, 0, 2>>      \* a label name with a '.' in it
ValueX  == <<1>>
ValueY  == <<2>>

NoLabels == [n \in {} |-> EmptyStr]

MetricLabelMaps ==
    { NoLabels,
      (NameA :> ValueX),
      (NameA :> EmptyStr) @@ (NameB :> ValueX),
      (NameAB :> ValueX) }

ResourceNames == {NameA, NameB}

ResourceLabelMaps ==
    { NoLabels,
      (NameA :> ValueX),
      (NameB :> ValueY) }

TypeNames == {ValueX, ValueY}

\* {'resource': ts.resource.__dict__, 'metric': ts.metric.__dict__}
HeaderRecords ==
    [ metric   : [type : TypeNames, labels : MetricLabelMaps],
      resource : [type : {ValueX}, labels : ResourceLabelMaps] ]

HeaderSeqs == UNION {[1..n -> HeaderRecords] : n \in 0..MaxHeaders}

Orders(S) == {s \in [1..Cardinality(S) -> S] : Range(s) = S}

-----------------------------------------------------------------------------
(* pandas *)

NotCalled == [kind |-> "none"]
KeyError  == [kind |-> "KeyError"]

DataFrame(columns, index, data) ==
    [kind |-> "DataFrame", columns |-> columns, index |-> index, data |-> data]

\* pandas.DataFrame()
EmptyDataFrame == DataFrame(<<>>, <<>>, <<>>)

\* pandas.io.json.nested_to_record: {'metric': {'type': t, 'labels': {n: v}}, ...}
\* becomes {'metric.type': t, 'metric.labels.n': v, ...}; an empty mapping leaves no key
nested_to_record(h) ==
    LET under(prefix, labels) ==
            [k \in {Join(prefix, n) : n \in DOMAIN labels} |->
                labels[SubSeq(k, Len(prefix) + 2, Len(k))]]
    IN  (MetricType :> h.metric.type) @@ (ResourceType :> h.resource.type)
        @@ under(MetricLabels, h.metric.labels)
        @@ under(ResourceLabels, h.resource.labels)

\* pandas.io.json.json_normalize: one row per record, one column per key of any
\* record (in sorted order), NaN where a record lacks the key
json_normalize(hs) ==
    LET keys == UNION {DOMAIN nested_to_record(hs[i]) : i \in DOMAIN hs}
    IN  DataFrame(SortedSeq(keys, StrLess),
                  [i \in DOMAIN hs |-> i - 1],
                  [i \in DOMAIN hs |->
                      LET flat == nested_to_record(hs[i])
                      IN  [c \in keys |-> IF c \in DOMAIN flat THEN flat[c] ELSE NaN]])

\* df.columns = pandas.MultiIndex.from_tuples([col.rsplit('.', 1) for col in df.columns])
set_columns(d) ==
    LET tuples == [i \in DOMAIN d.columns |-> rsplit(d.columns[i])]
        at(t)  == CHOOSE i \in DOMAIN tuples : tuples[i] = t
    IN  DataFrame(tuples, d.index,
                  [r \in DOMAIN d.data |->
                      [t \in Range(tuples) |-> d.data[r][d.columns[at(t)]]]])

\* df[group] raises KeyError when no column has this top-level group
has_group(d, group) == \E c \in Range(d.columns) : c[1] = group

\* df[group].columns: the second-level names under a top-level group
group_columns(d, group) ==
    LET under == SelectSeq(d.columns, LAMBDA c : c[1] = group)
    IN  [i \in DOMAIN under |-> under[i][2]]

\* gcloud.monitoring._dataframe._sorted_resource_labels: the label names in the
\* library's canonical order
_sorted_resource_labels(labels) ==
    LET pos(n) == CHOOSE i \in DOMAIN resourceOrder : resourceOrder[i] = n
    IN  SortedSeq(Range(labels), LAMBDA x, y : pos(x) < pos(y))

\* sorted(col for col in df.columns if col[0] == 'metric.labels')
metric_columns(d) ==
    SortedSeq({c \in Range(d.columns) : c[1] = MetricLabels}, TupleLess)

\* as sorted_columns, with the resource labels put before the metric labels
sorted_columns_ResourceFirst(d, resource_keys) ==
    <<<<MetricStr, TypeStr>>, <<ResourceStr, TypeStr>>>>
    \o [i \in DOMAIN resource_keys |-> <<ResourceLabels, resource_keys[i]>>]
    \o metric_columns(d)

\* the list built at "Re-order the columns"
sorted_columns(d, resource_keys) ==
    <<<<MetricStr, TypeStr>>, <<ResourceStr, TypeStr>>>>
    \o metric_columns(d)
    \o [i \in DOMAIN resource_keys |-> <<ResourceLabels, resource_keys[i]>>]

\* df[columns]
select(d, columns) ==
    DataFrame(columns, d.index,
              [r \in DOMAIN d.data |-> [c \in Range(columns) |-> d.data[r][c]]])

\* as CellLess, with NaN before every value (na_position='first')
CellLess_NaNFirst(a, b) ==
    IF b = NaN THEN FALSE ELSE IF a = NaN THEN TRUE ELSE StrLess(a, b)

\* the order sort_values puts two cells in: NaN after every value (na_position='last')
CellLess(a, b) ==
    IF a = NaN THEN FALSE ELSE IF b = NaN THEN TRUE ELSE StrLess(a, b)

RowLess(by, r, s) ==
    \E k \in DOMAIN by :
        /\ \A i \in 1..(k - 1) : r[by[i]] = s[by[i]]
        /\ CellLess(r[by[k]], s[by[k]])

\* as sort_values, with the rows left in input order
sort_values_Unsorted(d, by) == d

\* df.sort_values(by): a stable sort of the rows; every row keeps its index value
sort_values(d, by) ==
    LET n == Len(d.data)
        before(i, j) == \/ RowLess(by, d.data[i], d.data[j])
                        \/ ~RowLess(by, d.data[j], d.data[i]) /\ i < j
        perm == SortedSeq(1..n, before)
    IN  DataFrame(d.columns,
                  [i \in 1..n |-> d.index[perm[i]]],
                  [i \in 1..n |-> d.data[perm[i]]])

\* as reset_index, with the index left as sort_values permuted it
reset_index_Kept(d) == d

\* df.reset_index(drop=True)
reset_index(d) ==
    DataFrame(d.columns, [i \in DOMAIN d.data |-> i - 1], d.data)

\* as fillna, with the NaN cells left in place
fillna_Skipped(d, value) == d

\* df.fillna(value)
fillna(d, value) ==
    DataFrame(d.columns, d.index,
              [r \in DOMAIN d.data |->
                  [c \in DOMAIN d.data[r] |->
                      IF d.data[r][c] = NaN THEN value ELSE d.data[r][c]]])

\* as labels_as_dataframe, without the early return for no headers
labels_as_dataframe_NoEmptyCase(hs) ==
    LET d0 == set_columns(json_normalize(hs))
    IN  IF ~has_group(d0, ResourceLabels) THEN KeyError
        ELSE LET resource_keys == _sorted_resource_labels(
                                      group_columns(d0, ResourceLabels))
                 by == sorted_columns(d0, resource_keys)
             IN  fillna(reset_index(sort_values(select(d0, by), by)), EmptyStr)

\* Query.labels_as_dataframe, on the headers its headers-only iteration yields
labels_as_dataframe(hs) ==
    IF hs = <<>> THEN EmptyDataFrame
    ELSE LET d0 == set_columns(json_normalize(hs))
         IN  IF ~has_group(d0, ResourceLabels) THEN KeyError
             ELSE LET resource_keys == _sorted_resource_labels(
                                           group_columns(d0, ResourceLabels))
                      by == sorted_columns(d0, resource_keys)
                  IN  fillna(reset_index(sort_values(select(d0, by), by)), EmptyStr)

-----------------------------------------------------------------------------
(* SpecLabels: labels_as_dataframe applied to every bounded input *)

CacheIdle == _results = None /\ log = <<>> /\ returned = None
IterIdle  == initArg = NoArg /\ backend = <<>> /\ filters = <<>> /\ gens = <<>>

InitLabels ==
    /\ headers \in HeaderSeqs
    /\ resourceOrder \in Orders(ResourceNames)
    /\ df = NotCalled
    /\ CacheIdle
    /\ IterIdle

CallLabelsAsDataframe ==
    /\ df.kind = "none"
    /\ df' = labels_as_dataframe(headers)
    /\ UNCHANGED <<headers, resourceOrder>>
    /\ UNCHANGED cacheVars
    /\ UNCHANGED iterVars

NextLabels == CallLabelsAsDataframe

SpecLabels == InitLabels /\ [][NextLabels]_vars

-----------------------------------------------------------------------------
(* Properties of labels_as_dataframe *)

Called  == df.kind # "none"
IsTable == df.kind = "DataFrame"
NRows   == Len(df.data)

PermsOf(n) == Orders(1..n)
Permuted(hs, p) == [i \in DOMAIN hs |-> hs[p[i]]]

MetricNamesOf(hs)   == UNION {DOMAIN hs[i].metric.labels : i \in DOMAIN hs}
ResourceNamesOf(hs) == UNION {DOMAIN hs[i].resource.labels : i \in DOMAIN hs}

IsLabelColumn(c) == c[1] \in {MetricLabels, ResourceLabels}

\* what a header record holds for a column: its value, or NaN for a label it lacks
CellOf(h, c) ==
    IF c = <<MetricStr, TypeStr>> THEN h.metric.type
    ELSE IF c = <<ResourceStr, TypeStr>> THEN h.resource.type
    ELSE IF c[1] = MetricLabels /\ c[2] \in DOMAIN h.metric.labels
         THEN h.metric.labels[c[2]]
    ELSE IF c[1] = ResourceLabels /\ c[2] \in DOMAIN h.resource.labels
         THEN h.resource.labels[c[2]]
    ELSE NaN

Rendered(v) == IF v = NaN THEN EmptyStr ELSE v

\* row i of the table is the header record h, rendered
IsRowOf(i, h) == \A c \in Range(df.columns) : df.data[i][c] = Rendered(CellOf(h, c))

\* the cells of row i in output column order
RowTuple(i) == [k \in DOMAIN df.columns |-> df.data[i][df.columns[k]]]

\* the cells of header record h in output column order, NaN for a label it lacks
KeyTuple(h) == [k \in DOMAIN df.columns |-> CellOf(h, df.columns[k])]

\* lexicographic order on key tuples in which NaN comes after every string
MissingLastLess(s, t) ==
    \E k \in DOMAIN s :
        /\ \A i \in 1..(k - 1) : s[i] = t[i]
        /\ s[k] # NaN
        /\ (t[k] = NaN \/ StrLess(s[k], t[k]))

\* C1: the columns of the returned table are exactly (metric,type), (resource,type),
\* one (metric.labels, name) per metric label name of any record and one
\* (resource.labels, name) per resource label name of any record.
C1_ColumnSet ==
    (IsTable /\ headers # <<>>) =>
        /\ Range(df.columns) =
              {<<MetricStr, TypeStr>>, <<ResourceStr, TypeStr>>}
              \cup {<<MetricLabels, n>> : n \in MetricNamesOf(headers)}
              \cup {<<ResourceLabels, n>> : n \in ResourceNamesOf(headers)}
        /\ Cardinality(Range(df.columns)) = Len(df.columns)

\* C2: labels_as_dataframe raises no error for well-formed headers, also when no
\* record carries a resource label or none carries a metric label.
C2_NoError == df.kind # "KeyError"

\* C3: the columns are (metric,type), (resource,type), then the metric-label columns
\* in lexicographic order of name, then the resource-label columns in the order of
\* the library's canonical ordering; no metric label after a resource label.
C3_ColumnOrder ==
    (IsTable /\ headers # <<>>) =>
        LET cols == df.columns
            pos(n) == CHOOSE i \in DOMAIN resourceOrder : resourceOrder[i] = n
            resource == SelectSeq(cols, LAMBDA c : c[1] = ResourceLabels)
        IN  /\ Len(cols) >= 2
            /\ cols[1] = <<MetricStr, TypeStr>>
            /\ cols[2] = <<ResourceStr, TypeStr>>
            /\ \A i \in 3..Len(cols) : IsLabelColumn(cols[i])
            /\ \A i, j \in 3..Len(cols) :
                  i < j =>
                    /\ ~(cols[i][1] = ResourceLabels /\ cols[j][1] = MetricLabels)
                    /\ (cols[i][1] = MetricLabels /\ cols[j][1] = MetricLabels)
                          => StrLess(cols[i][2], cols[j][2])
                    /\ (cols[i][1] = ResourceLabels /\ cols[j][1] = ResourceLabels)
                          => pos(cols[i][2]) < pos(cols[j][2])
            /\ [i \in DOMAIN resource |-> resource[i][2]] =
                  _sorted_resource_labels(
                      SortedSeq({c[2] : c \in Range(resource)}, StrLess))

C3_Witness ==
    /\ IsTable
    /\ \E i, j \in DOMAIN df.columns :
          /\ i < j
          /\ df.columns[i][1] = MetricLabels /\ df.columns[j][1] = MetricLabels
    /\ \E i, j \in DOMAIN df.columns :
          /\ i < j
          /\ df.columns[i][1] = ResourceLabels /\ df.columns[j][1] = ResourceLabels
          /\ StrLess(df.columns[j][2], df.columns[i][2])

\* C4: headers that are a permutation of each other give the same result: the same
\* columns in the same order and the same rows in the same order.
C4_PermutationInvariant ==
    Called =>
        \A p \in PermsOf(Len(headers)) :
            LET other == labels_as_dataframe(Permuted(headers, p))
            IN  /\ other.kind = df.kind
                /\ IsTable =>
                      /\ other.columns = df.columns
                      /\ other.index = df.index
                      /\ other.data = df.data

C4_Witness ==
    /\ IsTable
    /\ NRows >= 2
    /\ df.data[1] # df.data[2]
    /\ IsRowOf(1, headers[2])
    /\ ~IsRowOf(1, headers[1])

\* C5 as stated: consecutive rows are in lexicographic order of their cells in output
\* column order, a cell of a lacking label compared as the empty string it shows.
C5_SortedAsRendered ==
    IsTable => \A i \in 1..(NRows - 1) : ~TupleLess(RowTuple(i + 1), RowTuple(i))

\* C5 as amended: consecutive rows are in lexicographic order of their records' cells
\* in output column order, a lacking label compared as after every present value.
C5_SortedMissingLast ==
    (IsTable /\ headers # <<>>) =>
        \E p \in PermsOf(Len(headers)) :
            /\ NRows = Len(headers)
            /\ \A i \in 1..NRows : IsRowOf(i, headers[p[i]])
            /\ \A i \in 1..(NRows - 1) :
                  ~MissingLastLess(KeyTuple(headers[p[i + 1]]), KeyTuple(headers[p[i]]))

C5_Witness ==
    /\ IsTable
    /\ NRows >= 2
    /\ \E c \in Range(df.columns) :
          /\ IsLabelColumn(c)
          /\ df.data[1][c] # EmptyStr
          /\ df.data[2][c] = EmptyStr
          /\ \A b \in Range(df.columns) : b # c => df.data[1][b] = df.data[2][b]
          /\ \E h \in Range(headers) : IsRowOf(2, h) /\ CellOf(h, c) = NaN

\* C6: every row is a record's row: a label the record has shows its value, a label
\* the record lacks shows the empty string, and no cell holds the missing marker.
C6_CellValues ==
    (IsTable /\ headers # <<>>) =>
        /\ \E p \in PermsOf(Len(headers)) :
              /\ NRows = Len(headers)
              /\ \A i \in 1..NRows : \A c \in Range(df.columns) :
                    LET h == headers[p[i]]
                    IN  IF CellOf(h, c) = NaN
                        THEN df.data[i][c] = EmptyStr
                        ELSE df.data[i][c] = CellOf(h, c)
        /\ \A i \in 1..NRows : \A c \in DOMAIN df.data[i] : df.data[i][c] # NaN

C6_Witness ==
    /\ IsTable
    /\ \E i \in 1..NRows : \E c \in Range(df.columns) : \E h \in Range(headers) :
          /\ IsLabelColumn(c)
          /\ IsRowOf(i, h)
          /\ CellOf(h, c) = NaN
          /\ df.data[i][c] = EmptyStr
    /\ \E i \in 1..NRows : \E c \in Range(df.columns) :
          IsLabelColumn(c) /\ df.data[i][c] # EmptyStr

\* C7: the table has one row per header record, equal records included, and its
\* row index is 0, 1, ..., n-1.
C7_OneRowPerHeader ==
    IsTable =>
        /\ NRows = Len(headers)
        /\ df.index = [i \in 1..Len(headers) |-> i - 1]

C7_Witness ==
    /\ IsTable
    /\ NRows >= 2
    /\ headers[1] = headers[2]
    /\ df.index = <<0, 1>>

\* C8: with no time series, the result is the empty table: no rows, no columns,
\* no error.
C8_EmptyInput ==
    (Called /\ headers = <<>>) =>
        /\ IsTable
        /\ df.columns = <<>>
        /\ df.data = <<>>
        /\ df.index = <<>>

C8_Witness == Called /\ headers = <<>> /\ IsTable

-----------------------------------------------------------------------------
(* SpecCache: execute() and results() in any order on one Query *)

\* _query_result.QueryResults(self, use_short_metric_types): a new object, named by
\* the call that constructs it
QueryResults(id, use_short_metric_types) ==
    [kind |-> "QueryResults", id |-> id,
     use_short_metric_types |-> use_short_metric_types]

\* as execute, with a stored result kept whatever use_cache says
execute_CacheAlways(stored, id, use_cache, use_short_metric_types) ==
    IF stored.kind = "None"
    THEN QueryResults(id, use_short_metric_types)
    ELSE stored

\* Query.execute: the value of self._results after the call
execute(stored, id, use_cache, use_short_metric_types) ==
    IF ~use_cache \/ stored.kind = "None"
    THEN QueryResults(id, use_short_metric_types)
    ELSE stored

Logged(op, use_cache, use_short_metric_types) ==
    Append(log, [op |-> op, use_cache |-> use_cache,
                 use_short_metric_types |-> use_short_metric_types,
                 stored |-> _results.kind # "None"])

InitCache ==
    /\ _results = None
    /\ log = <<>>
    /\ returned = None
    /\ headers = <<>> /\ resourceOrder = <<>> /\ df = NotCalled
    /\ IterIdle

CallExecute ==
    /\ Len(log) < MaxCalls
    /\ \E use_cache \in BOOLEAN, use_short_metric_types \in BOOLEAN :
          /\ _results' = execute(_results, Len(log) + 1, use_cache, use_short_metric_types)
          /\ log' = Logged("execute", use_cache, use_short_metric_types)
    /\ UNCHANGED returned
    /\ UNCHANGED labelVars
    /\ UNCHANGED iterVars

CallResults ==
    /\ Len(log) < MaxCalls
    /\ \E use_cache \in BOOLEAN, use_short_metric_types \in BOOLEAN :
          /\ _results' = execute(_results, Len(log) + 1, use_cache, use_short_metric_types)
          /\ log' = Logged("results", use_cache, use_short_metric_types)
    /\ returned' = _results'
    /\ UNCHANGED labelVars
    /\ UNCHANGED iterVars

NextCache == CallExecute \/ CallResults

SpecCache == InitCache /\ [][NextCache]_vars

\* the calls that had use_cache=False or were made while no result was stored
Builders == {i \in DOMAIN log : ~log[i].use_cache \/ ~log[i].stored}

LastBuilder == CHOOSE i \in Builders : \A j \in Builders : j <= i

\* C9: the stored result is the one built by the latest call that had use_cache=False
\* or found no result stored, with that call's use_short_metric_types; a later call
\* with use_cache=True changes nothing; results() returns the stored result, not None.
C9_CachedResults ==
    /\ IF Builders = {}
       THEN _results.kind = "None"
       ELSE /\ _results.kind = "QueryResults"
            /\ _results.id = LastBuilder
            /\ _results.use_short_metric_types = log[LastBuilder].use_short_metric_types
    /\ (log # <<>> /\ log[Len(log)].op = "results") =>
          /\ returned.kind = "QueryResults"
          /\ returned.id = _results.id
          /\ returned.use_short_metric_types = _results.use_short_metric_types

C9_Witness ==
    /\ Len(log) >= 3
    /\ log[Len(log)].op = "results"
    /\ log[Len(log)].use_cache
    /\ log[Len(log)].use_short_metric_types # _results.use_short_metric_types
    /\ _results.id = 2
    /\ returned.id = 2

-----------------------------------------------------------------------------
(* SpecIter: Query.__init__, then generators made by Query.iter, consumed in any
   interleaving *)

TypeA  == <<1>>
TypeB  == <<2>>
TypeAB == <<1, 2>>      \* a metric type of two characters

MetricTypes == {TypeA, TypeB, TypeAB}

\* the metric_type argument: one string, or a list of strings
InitArgs ==
    [kind : {"str"}, value : {TypeA, TypeAB}]
    \cup [kind : {"list"},
          value : {<<>>, <<TypeAB>>, <<TypeA, TypeB>>, <<TypeB, TypeA>>, <<TypeA, TypeA>>}]

Generators == {1, 2}

\* the _Filter object of the Query itself
SelfFilter == 0

\* as __init__, with tuple(metric_type) applied to a string as well
__init___NoStringCase(arg) ==
    IF arg.kind = "str"
    THEN [i \in DOMAIN arg.value |-> <<arg.value[i]>>]
    ELSE arg.value

\* Query.__init__: the metric_type tuple handed to the filter
__init__(arg) ==
    IF arg.kind = "str"
    THEN <<arg.value>>
    ELSE arg.value

\* what the service returns for a query filtered on one metric type
TimeSeries(metric) == [i \in 1..backend[metric] |-> <<metric, i>>]

\* gcloud's Query.copy(): a new Query with a _Filter object of its own
copy(gen) == gen

NotIterating == [pc |-> "none"]

\* the generator object made by a call of iter(): no line of its body has run
NewGenerator ==
    [pc |-> "created", single_metric_query |-> SelfFilter, metric_types |-> <<>>,
     k |-> 0, n |-> 0, issued |-> <<>>, yielded |-> <<>>]

\* the generator's body from where it is suspended to its next yield or its return:
\* the rest of the current sub-query, then one sub-query per further metric type
RECURSIVE resume(_, _)
resume(g, filter) ==
    IF g.k >= 1 /\ g.n < Len(TimeSeries(filter))
    THEN [gen |-> [g EXCEPT !.pc = "suspended", !.n = g.n + 1,
                            !.yielded = Append(g.yielded, TimeSeries(filter)[g.n + 1])],
          filter |-> filter]
    ELSE IF g.k < Len(g.metric_types)
    THEN resume([g EXCEPT !.k = g.k + 1, !.n = 0,
                          !.issued = Append(g.issued, g.metric_types[g.k + 1])],
                g.metric_types[g.k + 1])
    ELSE [gen |-> [g EXCEPT !.pc = "done"], filter |-> filter]

InitIter ==
    /\ initArg \in InitArgs
    /\ backend \in [MetricTypes -> 0..MaxSeries]
    /\ filters = (SelfFilter :> __init__(initArg))
    /\ gens = [g \in Generators |-> NotIterating]
    /\ headers = <<>> /\ resourceOrder = <<>> /\ df = NotCalled
    /\ CacheIdle

\* query.iter(): makes a generator
CallIter ==
    /\ \E g \in Generators :
          /\ gens[g].pc = "none"
          /\ gens' = [gens EXCEPT ![g] = NewGenerator]
    /\ UNCHANGED <<initArg, backend, filters>>
    /\ UNCHANGED labelVars
    /\ UNCHANGED cacheVars

\* next(generator), the first time: copy the query, read self._filter.metric_type,
\* then run to the first yield
FirstNext ==
    /\ \E g \in Generators :
          /\ gens[g].pc = "created"
          /\ LET started == [gens[g] EXCEPT !.single_metric_query = copy(g),
                                            !.metric_types = filters[SelfFilter]]
                 after   == resume(started, filters[SelfFilter])
             IN  /\ gens' = [gens EXCEPT ![g] = after.gen]
                 /\ filters' = (copy(g) :> after.filter) @@ filters
    /\ UNCHANGED <<initArg, backend>>
    /\ UNCHANGED labelVars
    /\ UNCHANGED cacheVars

\* next(generator) on a suspended generator: run to the next yield or to the end
Next ==
    /\ \E g \in Generators :
          /\ gens[g].pc = "suspended"
          /\ LET after == resume(gens[g], filters[gens[g].single_metric_query])
             IN  /\ gens' = [gens EXCEPT ![g] = after.gen]
                 /\ filters' = [filters EXCEPT ![gens[g].single_metric_query] = after.filter]
    /\ UNCHANGED <<initArg, backend>>
    /\ UNCHANGED labelVars
    /\ UNCHANGED cacheVars

NextIter == CallIter \/ FirstNext \/ Next

SpecIter == InitIter /\ [][NextIter]_vars

\* the metric types the Query was constructed with: a string is one metric type
ConstructedWith ==
    IF initArg.kind = "str" THEN <<initArg.value>> ELSE initArg.value

RECURSIVE Concatenated(_)
Concatenated(types) ==
    IF types = <<>> THEN <<>>
    ELSE TimeSeries(Head(types)) \o Concatenated(Tail(types))

IsPrefix(s, t) == Len(s) <= Len(t) /\ SubSeq(t, 1, Len(s)) = s

\* C10: every generator issues one sub-query per metric type the Query was constructed
\* with, in that order, and yields the sub-queries' time series concatenated in that
\* order, whatever the interleaving with another generator; the Query's own
\* metric-type filter stays the tuple it was constructed with.
C10_IterPerMetricType ==
    /\ filters[SelfFilter] = ConstructedWith
    /\ \A g \in Generators :
          gens[g].pc \in {"suspended", "done"} =>
            /\ IsPrefix(gens[g].issued, ConstructedWith)
            /\ IsPrefix(gens[g].yielded, Concatenated(ConstructedWith))
            /\ \A i \in DOMAIN gens[g].yielded :
                  \E k \in DOMAIN gens[g].issued : gens[g].issued[k] = gens[g].yielded[i][1]
            /\ gens[g].pc = "done" =>
                  /\ gens[g].issued = ConstructedWith
                  /\ gens[g].yielded = Concatenated(ConstructedWith)

C10_Witness ==
    /\ initArg.kind = "list"
    /\ Len(initArg.value) = 2
    /\ gens[1].pc = "suspended" /\ gens[1].k = 2 /\ Len(gens[1].yielded) >= 2
    /\ gens[2].pc = "suspended" /\ gens[2].k = 1
    /\ filters[1] # filters[2]
    /\ filters[SelfFilter] = initArg.value

====
